---- MODULE Spec2Model ----
(***************************************************************************)
(* Terrain generator of knight-dreams: two GroundLayer objects (foreground *)
(* and background), each a ring of tiles regenerated one slot per update,  *)
(* and the collision probe that reads the ring; and the AssetManager that  *)
(* counts the bitmaps requested and loaded.                                *)
(***************************************************************************)
EXTENDS Integers, Sequences, FiniteSets, TLC

(* ------------------------------ bounds -------------------------------- *)

\* ring width handed to the constructor
Width == 3
\* number of world ticks (one update of each layer) explored
MaxTicks == 8
\* setReferenceLayer is explored up to this tick
MaxSetRefTick == 1
\* number of world ticks explored together with the collision probe
MaxProbeTicks == 3
\* the actor positions, scroll offsets and screen heights the probe is
\* called with
ActorXs == {-20, 40}
TileOffsets == {8}
ScreenHeights == {192}
\* the names loadBitmap is called with and the number of calls explored
Names == {"a", "b"}
MaxRequests == 4

(* ----------------------------- constants ------------------------------ *)

BASE_SHIFT_X == 2

SLOPE_WAIT_MIN == 2
SLOPE_WAIT_MAX == 12

\* tables indexed by layer type; TLA+ tuples start at 1, hence the + 1 at
\* every use
MIN_HEIGHT == <<1, 2>>
MAX_HEIGHT == <<5, 4>>

DECORATION_WAIT_MIN == 8
DECORATION_WAIT_MAX == 16

TileType_None == 0
TileType_Surface == 1
TileType_Bridge == 2

SlopeDirection_Up == -1
SlopeDirection_None == 0
SlopeDirection_Down == 1

Decoration_None == 0
Decoration_Palmtree == 1

Foreground == 0
Background == 1

INITIAL_HEIGHT == <<2, 0>>
INITIAL_TYPE == <<TileType_Surface, TileType_None>>

SLOPE_DURATION_MIN == 1
SLOPE_DURATION_MAX == 2

TYPE_WAIT_MIN == <<<<2, 2, 2>>, <<4, 2, 0>>>>
TYPE_WAIT_MAX == <<<<4, 16, 6>>, <<16, 10, 0>>>>

GAP_JUMP_MAX == 2
\* objectCollision's window: the actor's tile column -+ OFFSET
OFFSET == 2
\* probabilities in hundredths
\* faulty variant: the background bridges as the foreground does
BRIDGE_PROB_Both == <<33, 33>>

BRIDGE_PROB == <<33, 0>>
SLOPE_UP_PROB == 50

\* the ref field of a layer without reference
Undefined == -1

Layers == {Foreground, Background}
Slots == 0 .. (Width - 1)

(* --------------------------- common/math ------------------------------ *)

\* an integer in [min, max]
sampleUniform(min, max) == min .. max

clamp(x, min, max) == IF x < min THEN min ELSE IF x > max THEN max ELSE x

\* the non-negative remainder
negMod(m, n) == ((m % n) + n) % n

\* (a / b) | 0 for b > 0: the quotient cut towards zero
truncDiv(a, b) == IF a >= 0 THEN a \div b ELSE -((-a) \div b)

\* Math.random(), in hundredths: one value for each side of every
\* threshold the code compares it with
RandomDraws == {20, 60}
\* stands for a draw the code did not make
NoDraw == -1

\* the values explored of a timer drawn by sampleUniform(min, max): both
\* ends of the range (heights are drawn from the whole range)
TimerDraws(min, max) ==
    {v \in sampleUniform(min, max) : v = min \/ v = max}

(* ------------------------------ state --------------------------------- *)

VARIABLES
    layers,       \* layer type -> the GroundLayer object of that type
    tilePointer,  \* the driver's ring pointer
    ticks,        \* world ticks completed
    last,         \* the last call made and what it did
    trail,        \* layer type -> what the tiles written so far were
    assets,       \* the AssetManager object
    images        \* the Image objects loadBitmap has made, in order

vars == <<layers, tilePointer, ticks, last, trail, assets, images>>

\* the fields of a new layer: sw and dw are the two draws of the
\* constructor, tw the initialiser of typeWait
layerFields(type, shift, sw, dw, tw) ==
    [ height |-> [i \in Slots |-> INITIAL_HEIGHT[type + 1]],
      type |-> [i \in Slots |-> INITIAL_TYPE[type + 1]],
      slope |-> [i \in Slots |-> SlopeDirection_None],
      decorations |-> [i \in Slots |-> Decoration_None],
      activeHeight |-> INITIAL_HEIGHT[type + 1],
      activeType |-> INITIAL_TYPE[type + 1],
      typeWait |-> tw,
      slopeWait |-> sw,
      slopeDuration |-> 0,
      activeSlope |-> SlopeDirection_None,
      lastSlope |-> SlopeDirection_None,
      gapTimer |-> 0,
      decorationWait |-> dw,
      ref |-> Undefined,
      layerType |-> type,
      shift |-> shift ]

\* faulty variant: the type hold starts above zero
GroundLayer_HoldAboveZero(type, shift, sw, dw) ==
    layerFields(type, shift, sw, dw, 2)

\* new GroundLayer(Width, type, shift)
GroundLayer(type, shift, sw, dw) ==
    layerFields(type, shift, sw, dw, 0)

\* In the operators below self is the layer object and ref the object
\* self.ref points to; ref is read only where self.ref is defined.

\* this.ref?.activeHeight ?? 0
RefActiveHeight(self, ref) ==
    IF self.ref = Undefined THEN 0 ELSE ref.activeHeight

\* this.ref?.activeType, and Undefined without reference
RefActiveType(self, ref) ==
    IF self.ref = Undefined THEN Undefined ELSE ref.activeType

\* faulty variant: the lower end of the range is one too low
getHeightRange_LowMin(self, ref) ==
    << MIN_HEIGHT[self.layerType + 1] - 1, MAX_HEIGHT[self.layerType + 1] >>

getHeightRange(self, ref) ==
    IF self.layerType = Background
    THEN << MIN_HEIGHT[self.layerType + 1] + RefActiveHeight(self, ref),
            MAX_HEIGHT[self.layerType + 1] + RefActiveHeight(self, ref) >>
    ELSE << MIN_HEIGHT[self.layerType + 1], MAX_HEIGHT[self.layerType + 1] >>

(* ----------------------------- updateSlope ---------------------------- *)

\* lines 119-124: remember the slope, count the run down, end it at zero
slopeCountdown(self) ==
    [self EXCEPT !.lastSlope = self.activeSlope,
                 !.slopeDuration = self.slopeDuration - 1,
                 !.activeSlope = IF self.slopeDuration - 1 <= 0
                                 THEN SlopeDirection_None
                                 ELSE self.activeSlope]

\* faulty variant: the rule fires one unit later
coupledFires_OffByOne(self, ref) ==
    /\ self.activeType = TileType_Surface
    /\ self.layerType = Background
    /\ self.ref # Undefined
    /\ LET dif == self.activeHeight - ref.activeHeight
       IN  \/ (ref.activeSlope = SlopeDirection_Up /\ dif < 2)
           \/ dif < 1

\* lines 130-136: the condition of the coupled branch
coupledFires(self, ref) ==
    /\ self.activeType = TileType_Surface
    /\ self.layerType = Background
    /\ self.ref # Undefined
    /\ LET dif == self.activeHeight - ref.activeHeight
       IN  \/ (ref.activeSlope = SlopeDirection_Up /\ dif <= 2)
           \/ dif <= 1

\* faulty variant: the type hold is left as it is
coupledSlope_NoHold(self) ==
    [self EXCEPT !.activeSlope = SlopeDirection_Up,
                 !.slopeWait = 2,
                 !.slopeDuration = 0,
                 !.activeHeight = self.activeHeight - SlopeDirection_Up]

\* lines 138-143: the coupled branch
coupledSlope(self) ==
    [self EXCEPT !.activeSlope = SlopeDirection_Up,
                 !.slopeWait = 2,
                 !.slopeDuration = 0,
                 !.activeHeight = self.activeHeight - SlopeDirection_Up,
                 !.typeWait = self.typeWait + 1]

\* lines 149-150: the conditions before the slope wait is counted down
slopeWaitCounts(self) ==
    self.activeType = TileType_Surface /\ self.typeWait >= 2

\* lines 149-151: the condition of the random slope branch
randomSlopeFires(self) ==
    slopeWaitCounts(self) /\ self.slopeWait - 1 <= 0

\* the branch updateSlope takes once the countdown is done
slopeBranch(self, ref) ==
    IF coupledFires(self, ref) THEN "coupled"
    ELSE IF randomSlopeFires(self) THEN "random"
    ELSE "none"

\* faulty variant: the direction drawn is kept whatever the projection
startSlope_NoFlip(self, ref, d, w, r) ==
    LET duration == IF self.typeWait - 1 < d THEN self.typeWait - 1 ELSE d
        dir == IF r < SLOPE_UP_PROB THEN SlopeDirection_Up ELSE SlopeDirection_Down
    IN  [self EXCEPT !.slopeDuration = duration,
                     !.slopeWait = (duration - 1) + w,
                     !.activeSlope = dir,
                     !.typeWait = self.typeWait + 1]

\* lines 153-164: a slope run starts; d is the duration drawn, w the wait
\* drawn, r the draw that picks the direction
startSlope(self, ref, d, w, r) ==
    LET duration == IF self.typeWait - 1 < d THEN self.typeWait - 1 ELSE d
        dir == IF r < SLOPE_UP_PROB THEN SlopeDirection_Up ELSE SlopeDirection_Down
        range == getHeightRange(self, ref)
        nextHeight == self.activeHeight - dir * duration
    IN  [self EXCEPT !.slopeDuration = duration,
                     !.slopeWait = (duration - 1) + w,
                     !.activeSlope = IF nextHeight # clamp(nextHeight, range[1], range[2])
                                     THEN dir * (-1) ELSE dir,
                     !.typeWait = self.typeWait + 1]

\* faulty variant: an ascending slope lowers the height
applySlope_Inverted(self) ==
    [self EXCEPT !.activeHeight = self.activeHeight + self.activeSlope]

\* line 166
applySlope(self) ==
    [self EXCEPT !.activeHeight = self.activeHeight - self.activeSlope]

\* the states updateSlope can leave, r the direction draw
updateSlope(self, ref, r) ==
    LET s0 == slopeCountdown(self)
    IN  IF coupledFires(s0, ref)
        THEN { coupledSlope(s0) }
        ELSE IF randomSlopeFires(s0)
        THEN { applySlope(startSlope(s0, ref, d, w, r)) :
                 d \in sampleUniform(SLOPE_DURATION_MIN, SLOPE_DURATION_MAX),
                 w \in TimerDraws(SLOPE_WAIT_MIN, SLOPE_WAIT_MAX) }
        ELSE IF slopeWaitCounts(s0)
        THEN { applySlope([s0 EXCEPT !.slopeWait = s0.slopeWait - 1]) }
        ELSE { applySlope(s0) }

(* ----------------------------- updateType ----------------------------- *)

\* line 188: the condition of a type transition
typeTransitionFires(self) ==
    self.typeWait - 1 <= 0 /\ self.lastSlope = SlopeDirection_None

\* the branch updateType takes from the state self
typeBranch(self) ==
    IF ~typeTransitionFires(self) THEN "none"
    ELSE IF self.activeType # TileType_Surface THEN "toSurface"
    ELSE "fromSurface"

\* faulty variant: the comparison is the wrong way round
leaveSurfaceType_Inverted(self, r) ==
    IF r >= BRIDGE_PROB[self.layerType + 1] THEN TileType_Bridge ELSE TileType_None

\* line 202: the type a transition out of Surface picks, r the draw
leaveSurfaceType(self, r) ==
    IF r < BRIDGE_PROB[self.layerType + 1] THEN TileType_Bridge ELSE TileType_None

\* faulty variant: every type is held for one tick
typeWaitDraws_OneTick(self) == {1}

\* lines 229-231: the type hold drawn for the new type
typeWaitDraws(self) ==
    TimerDraws(TYPE_WAIT_MIN[self.layerType + 1][self.activeType + 1],
               TYPE_WAIT_MAX[self.layerType + 1][self.activeType + 1])

\* lines 190-199
toSurface(self, ref) ==
    LET range == getHeightRange(self, ref)
        heights == IF self.layerType = Background
                   THEN sampleUniform(range[1], range[2])
                   ELSE {self.activeHeight}
    IN  { [self EXCEPT !.activeType = TileType_Surface,
                       !.activeHeight = h,
                       !.gapTimer = 0] : h \in heights }

\* faulty variant: a gap's height is drawn from the whole range
fromSurface_WholeRange(self, ref, r) ==
    LET range == getHeightRange(self, ref)
        type == leaveSurfaceType(self, r)
        heights == IF self.layerType = Foreground /\ type = TileType_None
                   THEN sampleUniform(range[1], range[2])
                   ELSE {self.activeHeight}
    IN  { [self EXCEPT !.activeType = type, !.activeHeight = h] : h \in heights }

\* lines 200-228
fromSurface(self, ref, r) ==
    LET range == getHeightRange(self, ref)
        type == leaveSurfaceType(self, r)
        lo == IF range[1] > self.activeHeight - GAP_JUMP_MAX
              THEN range[1] ELSE self.activeHeight - GAP_JUMP_MAX
        hi == IF range[2] < self.activeHeight + GAP_JUMP_MAX
              THEN range[2] ELSE self.activeHeight + GAP_JUMP_MAX
        heights == IF self.layerType = Foreground /\ type = TileType_None
                   THEN sampleUniform(lo, hi)
                   ELSE {self.activeHeight}
    IN  { [self EXCEPT !.activeType = type, !.activeHeight = h] : h \in heights }

\* the states updateType can leave, r the bridge draw
updateType(self, ref, r) ==
    LET s0 == [self EXCEPT !.gapTimer = IF self.activeType = TileType_None
                                        THEN self.gapTimer + 1
                                        ELSE self.gapTimer]
        s1 == [s0 EXCEPT !.typeWait = s0.typeWait - 1]
    IN  IF typeTransitionFires(s0)
        THEN UNION { { [t EXCEPT !.typeWait = w] : w \in typeWaitDraws(t) } :
                       t \in (IF s1.activeType # TileType_Surface
                              THEN toSurface(s1, ref) ELSE fromSurface(s1, ref, r)) }
        ELSE { s1 }

(* -------------------------- updateDecorations ------------------------- *)

\* faulty variant: a slope does not reject a decoration
decorationRejected_AnySlope(self, ref) ==
    \/ self.activeType # TileType_Surface
    \/ (self.layerType = Foreground /\ RefActiveType(self, ref) # TileType_None)

\* faulty variant: the reference is looked at in both layers
decorationRejected_BothLayers(self, ref) ==
    \/ self.activeType # TileType_Surface
    \/ self.activeSlope # SlopeDirection_None
    \/ RefActiveType(self, ref) # TileType_None

\* lines 241-244: the conditions that reject a decoration
decorationRejected(self, ref) ==
    \/ self.activeType # TileType_Surface
    \/ self.activeSlope # SlopeDirection_None
    \/ (self.layerType = Foreground /\ RefActiveType(self, ref) # TileType_None)

\* the branch updateDecorations takes from the state self
decorationBranch(self, ref) ==
    IF self.decorationWait - 1 > 0 THEN "wait"
    ELSE IF decorationRejected(self, ref) THEN "rejected"
    ELSE "placed"

\* the states updateDecorations can leave, each with the value returned
updateDecorations(self, ref, tilePtr) ==
    LET s0 == [self EXCEPT !.decorationWait = self.decorationWait - 1]
    IN  IF s0.decorationWait > 0 THEN { [layer |-> s0, ret |-> FALSE] }
        ELSE IF decorationRejected(s0, ref) THEN { [layer |-> s0, ret |-> FALSE] }
        ELSE { [layer |-> [s0 EXCEPT !.decorations[tilePtr] = Decoration_Palmtree,
                                     !.decorationWait = w],
                ret |-> TRUE] :
                 w \in TimerDraws(DECORATION_WAIT_MIN, DECORATION_WAIT_MAX) }

(* ------------------------------- update ------------------------------- *)

\* no height: the layer is not in a gap, nor has it just left one
NoHeight == -1

\* the trail of a layer that has written no tile
NoTrail == [gapFrom |-> NoHeight, run |-> 0]

\* the trail after an update that took the layer from old to new: gapFrom
\* is the height of the tile written before the gap the layer is in or has
\* just left, run the number of tiles of the gap or bridge written so far
trailAfter(old, new, tr) ==
    [ gapFrom |-> IF new.activeType = TileType_None /\ old.activeType # TileType_None
                  THEN old.activeHeight
                  ELSE IF old.activeType = TileType_None THEN tr.gapFrom
                  ELSE NoHeight,
      run |-> IF new.activeType = TileType_Surface THEN 0
              ELSE IF new.activeType = old.activeType THEN tr.run + 1
              ELSE 1 ]

\* faulty variant: the slope goes into the next slot
writeTile_SlopeAhead(d, tilePtr) ==
    LET s == IF d.ret THEN d.layer
             ELSE [d.layer EXCEPT !.decorations[tilePtr] = Decoration_None]
    IN  [s EXCEPT !.height[tilePtr] = s.activeHeight,
                  !.type[tilePtr] = s.activeType,
                  !.slope[(tilePtr + 1) % Width] = s.activeSlope]

\* lines 274-281: the tile record written into the slot
writeTile(d, tilePtr) ==
    LET s == IF d.ret THEN d.layer
             ELSE [d.layer EXCEPT !.decorations[tilePtr] = Decoration_None]
    IN  [s EXCEPT !.height[tilePtr] = s.activeHeight,
                  !.type[tilePtr] = s.activeType,
                  !.slope[tilePtr] = s.activeSlope]

\* the outcomes of update(tilePtr): the layer it leaves, the branches its
\* sub-generators took and the state between updateSlope and updateType;
\* rs and rt are the Math.random() draws of updateSlope and updateType
update(self, ref, tilePtr, rs, rt) ==
    UNION { UNION { { [ layer |-> writeTile(d, tilePtr),
                        slopeBranch |-> slopeBranch(slopeCountdown(self), ref),
                        typeBranch |-> typeBranch(s1),
                        decorationBranch |-> decorationBranch(s2, ref),
                        rs |-> rs, rt |-> rt ] :
                       d \in updateDecorations(s2, ref, tilePtr) } :
                    s2 \in updateType(s1, ref, rt) } :
            s1 \in updateSlope(self, ref, rs) }

\* lines 285-288
setReferenceLayer(self, ref) == [self EXCEPT !.ref = ref]

(* --------------------------- objectCollision -------------------------- *)

\* faulty variant: the flags of the two neighbours change places
tileSegments_FlagsSwapped(self, x, h, tilePtr, tileOffset) ==
    LET i == negMod(x + tilePtr, Width)
        left == IF self.type[negMod(i - 1, Width)] = TileType_None THEN 1 ELSE 0
        right == IF self.type[(i + 1) % Width] = TileType_None THEN 1 ELSE 0
        dx == x * 16 - tileOffset - BASE_SHIFT_X * 16 + self.shift
        dy == (h - self.height[i]) * 16
    IN  IF self.type[i] = TileType_None THEN << >>
        ELSE IF self.slope[i] = SlopeDirection_None
        THEN << <<dx, dy, dx + 16, dy, right, left>> >>
        ELSE IF self.slope[i] = SlopeDirection_Up
        THEN << <<dx, dy + 16, dx + 16, dy, 0, 0>> >>
        ELSE << <<dx, dy - 16, dx + 16, dy, 0, 0>> >>

\* lines 390-421: the floorCollision calls made for the tile column x
tileSegments(self, x, h, tilePtr, tileOffset) ==
    LET i == negMod(x + tilePtr, Width)
        left == IF self.type[negMod(i - 1, Width)] = TileType_None THEN 1 ELSE 0
        right == IF self.type[(i + 1) % Width] = TileType_None THEN 1 ELSE 0
        dx == x * 16 - tileOffset - BASE_SHIFT_X * 16 + self.shift
        dy == (h - self.height[i]) * 16
    IN  IF self.type[i] = TileType_None THEN << >>
        ELSE IF self.slope[i] = SlopeDirection_None
        THEN << <<dx, dy, dx + 16, dy, left, right>> >>
        ELSE IF self.slope[i] = SlopeDirection_Up
        THEN << <<dx, dy + 16, dx + 16, dy, 0, 0>> >>
        ELSE IF self.slope[i] = SlopeDirection_Down
        THEN << <<dx, dy - 16, dx + 16, dy, 0, 0>> >>
        ELSE << >>

\* line 388: the loop over the columns from x up to xMax
RECURSIVE windowSegments(_, _, _, _, _, _)
windowSegments(self, x, xMax, h, tilePtr, tileOffset) ==
    IF x > xMax THEN << >>
    ELSE tileSegments(self, x, h, tilePtr, tileOffset)
         \o windowSegments(self, x + 1, xMax, h, tilePtr, tileOffset)

\* faulty variant: the test of line 393 assigns instead of comparing, in the
\* actor's own column
objectCollision_Assigns(self, posX, tilePtr, tileOffset, screenHeight) ==
    LET h == truncDiv(screenHeight, 16)
        px == truncDiv(posX - self.shift, 16) + BASE_SHIFT_X
    IN  [ layer |-> [self EXCEPT !.type[negMod(px + tilePtr, Width)] = TileType_None],
          segs |-> windowSegments(self, px - OFFSET, px + OFFSET, h, tilePtr, tileOffset) ]

\* objectCollision for an actor at posX on a screen of screenHeight pixels:
\* the layer it leaves and the floorCollision calls the actor receives
objectCollision(self, posX, tilePtr, tileOffset, screenHeight) ==
    LET h == truncDiv(screenHeight, 16)
        px == truncDiv(posX - self.shift, 16) + BASE_SHIFT_X
    IN  [ layer |-> self,
          segs |-> windowSegments(self, px - OFFSET, px + OFFSET, h, tilePtr, tileOffset) ]

(* ---------------------------- AssetManager ---------------------------- *)

\* new AssetManager(): no bitmap, both counters zero (the samples map is
\* not read or written by the operations below)
AssetManager ==
    [ bitmaps |-> [n \in Names |-> Undefined],
      loaded |-> 0,
      totalAssets |-> 0 ]

addBitmap(self, name, bmp) ==
    IF bmp = Undefined THEN self ELSE [self EXCEPT !.bitmaps[name] = bmp]

\* loadBitmap(name, path): the Image made (its onload is yet to fire) and
\* the manager it leaves
loadBitmap(self, name) ==
    [ img |-> [name |-> name, fired |-> FALSE],
      assets |-> [self EXCEPT !.totalAssets = self.totalAssets + 1] ]

\* faulty variant: the callback counts the image and does not keep it
onload_NoAdd(self, name, img) ==
    [self EXCEPT !.loaded = self.loaded + 1]

\* the onload callback of the Image img made by loadBitmap(name, path)
onload(self, name, img) ==
    LET s == addBitmap(self, name, img)
    IN  [s EXCEPT !.loaded = s.loaded + 1]

getBitmap(self, name) == self.bitmaps[name]

hasLoaded(self) == self.loaded >= self.totalAssets

(* ------------------------------- driver ------------------------------- *)

Other(l) == IF l = Foreground THEN Background ELSE Foreground

\* the Math.random() draws a call of update reads
SlopeDrawSet(self, ref) ==
    IF slopeBranch(slopeCountdown(self), ref) = "random" THEN RandomDraws ELSE {NoDraw}

TypeDrawSet(self, ref) ==
    IF \E s1 \in updateSlope(self, ref, NoDraw) : typeBranch(s1) = "fromSurface"
    THEN RandomDraws ELSE {NoDraw}

\* every outcome of layer l's update(tilePtr) in the heap ls
Updates(ls, l, tilePtr) ==
    UNION { update(ls[l], ls[Other(l)], tilePtr, d[1], d[2]) :
              d \in SlopeDrawSet(ls[l], ls[Other(l)]) \X TypeDrawSet(ls[l], ls[Other(l)]) }

NoUpdate == [slopeBranch |-> "none", typeBranch |-> "none",
             decorationBranch |-> "wait", rs |-> NoDraw, rt |-> NoDraw]

NoCall == [op |-> "construct", layer |-> Foreground, p |-> 0,
           did |-> [l \in Layers |-> NoUpdate]]

Init ==
    /\ layers \in { [l \in Layers |-> IF l = Foreground
                                      THEN GroundLayer(Foreground, 0, sf, df)
                                      ELSE GroundLayer(Background, 8, sb, db)] :
                      sf \in TimerDraws(SLOPE_WAIT_MIN, SLOPE_WAIT_MAX),
                      df \in TimerDraws(DECORATION_WAIT_MIN, DECORATION_WAIT_MAX),
                      sb \in TimerDraws(SLOPE_WAIT_MIN, SLOPE_WAIT_MAX),
                      db \in TimerDraws(DECORATION_WAIT_MIN, DECORATION_WAIT_MAX) }
    /\ tilePointer = 0
    /\ ticks = 0
    /\ last = NoCall
    /\ trail = [l \in Layers |-> NoTrail]
    /\ assets = AssetManager
    /\ images = << >>

\* one world tick: the driver calls update(tilePointer) of the foreground
\* layer, then of the background layer, and moves the pointer on
Tick ==
    /\ ticks < MaxTicks
    /\ \E f \in Updates(layers, Foreground, tilePointer) :
       LET ls == [layers EXCEPT ![Foreground] = f.layer]
       IN  \E b \in Updates(ls, Background, tilePointer) :
              /\ layers' = [ls EXCEPT ![Background] = b.layer]
              /\ trail' = [l \in Layers |->
                             trailAfter(layers[l],
                                        IF l = Foreground THEN f.layer ELSE b.layer,
                                        trail[l])]
              /\ last' = [op |-> "update", layer |-> Background, p |-> tilePointer,
                          did |-> [l \in Layers |->
                                     LET o == IF l = Foreground THEN f ELSE b
                                     IN  [slopeBranch |-> o.slopeBranch,
                                          typeBranch |-> o.typeBranch,
                                          decorationBranch |-> o.decorationBranch,
                                          rs |-> o.rs, rt |-> o.rt]]]
    /\ tilePointer' = (tilePointer + 1) % Width
    /\ ticks' = ticks + 1
    /\ UNCHANGED <<assets, images>>

\* the driver's setup: it hands each layer the other one as its reference
SetReferenceLayers ==
    /\ ticks <= MaxSetRefTick
    /\ \A l \in Layers : layers[l].ref = Undefined
    /\ layers' = [l \in Layers |-> setReferenceLayer(layers[l], Other(l))]
    /\ last' = [NoCall EXCEPT !.op = "setReferenceLayer"]
    /\ UNCHANGED <<tilePointer, ticks, trail, assets, images>>

Next ==
    \/ Tick
    \/ SetReferenceLayers

Spec == Init /\ [][Next]_vars

\* the driver probes layer l for an actor; a probe is repeated at most once
ObjectCollision(l) ==
    /\ last.op = "objectCollision" => last.n < 2
    /\ \E x \in ActorXs, off \in TileOffsets, sh \in ScreenHeights :
         LET r == objectCollision(layers[l], x, tilePointer, off, sh)
         IN  /\ layers' = [layers EXCEPT ![l] = r.layer]
             /\ last' = [op |-> "objectCollision", layer |-> l, p |-> tilePointer,
                         args |-> <<x, off, sh>>, segs |-> r.segs,
                         n |-> IF last.op = "objectCollision" THEN last.n + 1 ELSE 1]
    /\ UNCHANGED <<tilePointer, ticks, trail, assets, images>>

ProbeTick == ticks < MaxProbeTicks /\ Tick

NextProbe ==
    \/ ProbeTick
    \/ SetReferenceLayers
    \/ \E l \in Layers : ObjectCollision(l)

SpecProbe == Init /\ [][NextProbe]_vars

\* the program asks for the bitmap name
LoadBitmap ==
    /\ Len(images) < MaxRequests
    /\ \E name \in Names :
         LET r == loadBitmap(assets, name)
         IN  /\ assets' = r.assets
             /\ images' = Append(images, r.img)
    /\ UNCHANGED <<layers, tilePointer, ticks, last, trail>>

\* the browser has loaded the k-th Image and runs its onload callback; an
\* Image fires once, after the loadBitmap call that made it has returned
OnLoad ==
    /\ \E k \in 1 .. Len(images) :
         /\ ~images[k].fired
         /\ assets' = onload(assets, images[k].name, k)
         /\ images' = [images EXCEPT ![k].fired = TRUE]
    /\ UNCHANGED <<layers, tilePointer, ticks, last, trail>>

\* the loading phase: one world, not yet ticking
InitAssets ==
    /\ Init
    /\ \A l \in Layers :
          /\ layers[l].slopeWait = SLOPE_WAIT_MIN
          /\ layers[l].decorationWait = DECORATION_WAIT_MIN

NextAssets ==
    \/ LoadBitmap
    \/ OnLoad

SpecAssets == InitAssets /\ [][NextAssets]_vars

(* ------------------------------- claims ------------------------------- *)

fg == layers[Foreground]
bg == layers[Background]

\* what the last world tick did in layer l
Did(l) == last.did[l]

\* the tile record and the active pair of layer s keep slopes on Surface
SlopeOnSurface(s) ==
    /\ s.activeSlope # SlopeDirection_None => s.activeType = TileType_Surface
    /\ \A i \in Slots :
          s.slope[i] # SlopeDirection_None => s.type[i] = TileType_Surface

\* C1: in every layer, with or without reference, a slope that is not flat
\* comes with type Surface, in every slot and in the active pair
C1_SlopeImpliesSurface == \A l \in Layers : SlopeOnSurface(layers[l])

\* the range of the spec for layer l: the table entries, shifted by the
\* reference's active height in a background layer
InRoleRange(l) ==
    LET shift == IF l = Background /\ layers[l].ref # Undefined
                 THEN layers[layers[l].ref].activeHeight ELSE 0
    IN  /\ layers[l].activeHeight >= MIN_HEIGHT[l + 1] + shift
        /\ layers[l].activeHeight <= MAX_HEIGHT[l + 1] + shift

\* C2 as stated: at every tick the active height of every layer lies in
\* the range of its role
C2_HeightInRange == \A l \in Layers : InRoleRange(l)

\* C2 amended: the foreground's active height always lies in [1, 5]; the
\* background's lies in its range after each update that turns its type
\* to Surface
C2_HeightInRangeAmended ==
    /\ InRoleRange(Foreground)
    /\ (last.op = "update" /\ Did(Background).typeBranch = "toSurface")
          => InRoleRange(Background)

C2_Witness ==
    /\ last.op = "update"
    /\ Did(Background).typeBranch = "toSurface"
    /\ bg.ref = Foreground
    /\ fg.activeHeight = 4
    /\ bg.activeHeight = 8

\* the slot tilePtr of layer s holds the active triple and decoration d
SlotHolds(s, tilePtr, d) ==
    /\ s.height[tilePtr] = s.activeHeight
    /\ s.type[tilePtr] = s.activeType
    /\ s.slope[tilePtr] = s.activeSlope
    /\ s.decorations[tilePtr] = d

\* the slots other than tilePtr are the same in s and t
OtherSlotsKept(s, t, tilePtr) ==
    \A i \in Slots \ {tilePtr} :
       /\ t.height[i] = s.height[i]
       /\ t.type[i] = s.type[i]
       /\ t.slope[i] = s.slope[i]
       /\ t.decorations[i] = s.decorations[i]

\* C3: an update writes the slot of the pointer it is called with, in all
\* four arrays, with the active values it leaves, and no other slot; the
\* pointer moves on by one modulo the width
C3_UpdateWritesOneSlot ==
    [][ last'.op = "update" =>
          /\ last'.p = tilePointer
          /\ tilePointer' = (tilePointer + 1) % Width
          /\ \A l \in Layers :
                /\ SlotHolds(layers'[l], tilePointer,
                             IF last'.did[l].decorationBranch = "placed"
                             THEN Decoration_Palmtree ELSE Decoration_None)
                /\ OtherSlotsKept(layers[l], layers'[l], tilePointer) ]_vars

\* the pointer is back at its start after Width ticks and the slots of the
\* background differ
C3_Witness ==
    /\ last.op = "update"
    /\ ticks = Width
    /\ tilePointer = 0
    /\ \E i \in Slots \ {last.p} : bg.height[i] # bg.height[last.p]

\* C4: objectCollision leaves the layers and the pointer as they are, and
\* a call repeated with the same arguments reports the same segments
C4_ProbeChangesNothing ==
    [][ last'.op = "objectCollision" =>
          /\ layers' = layers
          /\ tilePointer' = tilePointer
          /\ (last.op = "objectCollision" /\ last.layer = last'.layer
              /\ last.args = last'.args) => last'.segs = last.segs ]_vars

\* a probe repeated with the same arguments that reports a sloped segment
C4_Witness ==
    /\ last.op = "objectCollision"
    /\ last.n = 2
    /\ \E k \in 1 .. Len(last.segs) : last.segs[k][2] # last.segs[k][4]

\* the first update of the session has just run
FirstUpdate == ticks = 1 /\ last.op = "update"

\* C5 as stated: the first update of a fresh foreground layer makes no type
\* transition and writes a flat Surface tile of height 2
C5_FirstTileSurface ==
    FirstUpdate =>
       /\ Did(Foreground).typeBranch = "none"
       /\ fg.type[0] = TileType_Surface
       /\ fg.height[0] = 2
       /\ fg.slope[0] = SlopeDirection_None

\* C5 amended: the first update of a fresh foreground layer leaves Surface,
\* the type hold starting at zero: it writes a flat tile that is a Bridge of
\* height 2 or a gap of a height in [1, 4]
C5_FirstTileLeavesSurface ==
    FirstUpdate =>
       /\ Did(Foreground).typeBranch = "fromSurface"
       /\ fg.slope[0] = SlopeDirection_None
       /\ \/ fg.type[0] = TileType_Bridge /\ fg.height[0] = 2
          \/ fg.type[0] = TileType_None /\ fg.height[0] \in 1 .. 4

C5_Witness ==
    FirstUpdate /\ fg.type[0] = TileType_None /\ fg.height[0] = 4

\* the background's height less the reference's as the background's
\* updateSlope finds it in a world tick: the foreground has been updated
CoupledDif == bg.activeHeight - fg'.activeHeight

\* C6 as stated: a background that lies more than 1 above its reference
\* (more than 2 while the reference ascends) ascends after its update
C6_FarAboveAscends ==
    [][ ( /\ last'.op = "update"
          /\ bg.ref = Foreground
          /\ IF fg'.activeSlope = SlopeDirection_Up
             THEN CoupledDif > 2 ELSE CoupledDif > 1 )
        => bg'.activeSlope = SlopeDirection_Up ]_vars

\* C6 amended: a Surface background that lies at most 1 above its reference
\* (at most 2 while the reference ascends) ascends after its update
C6_CloseAboveAscends ==
    [][ ( /\ last'.op = "update"
          /\ bg.ref = Foreground
          /\ bg.activeType = TileType_Surface
          /\ IF fg'.activeSlope = SlopeDirection_Up
             THEN CoupledDif <= 2 ELSE CoupledDif <= 1 )
        => bg'.activeSlope = SlopeDirection_Up ]_vars

\* the background ascended 2 above a reference that ascends
C6_Witness ==
    /\ last.op = "update"
    /\ Did(Background).slopeBranch = "coupled"
    /\ fg.activeSlope = SlopeDirection_Up
    /\ bg.activeHeight - 1 - fg.activeHeight = 2

\* C7: a foreground transition out of Surface whose bridge draw succeeds
\* yields Bridge; a Bridge tile is flat, in every slot and in the active
\* pair
C7_BridgeDrawnAndFlat ==
    /\ ( /\ last.op = "update"
         /\ Did(Foreground).typeBranch = "fromSurface"
         /\ Did(Foreground).rt < BRIDGE_PROB[Foreground + 1] )
       => fg.activeType = TileType_Bridge
    /\ fg.activeType = TileType_Bridge => fg.activeSlope = SlopeDirection_None
    /\ \A i \in Slots :
          fg.type[i] = TileType_Bridge => fg.slope[i] = SlopeDirection_None

\* a Bridge drawn at a height other than the initial one
C7_Witness ==
    /\ last.op = "update"
    /\ Did(Foreground).typeBranch = "fromSurface"
    /\ fg.activeType = TileType_Bridge
    /\ fg.activeHeight # 2

\* C8 as stated: the background places no decoration on a tick on which the
\* foreground's active type is None
C8_NoDecorationOverGap ==
    ~ ( /\ last.op = "update"
        /\ Did(Background).decorationBranch = "placed"
        /\ fg.activeType = TileType_None )

\* C8 amended: a background whose wait has expired places a decoration
\* whenever its own type is Surface and its own slope flat, whatever the
\* foreground's type
C8_BackgroundIgnoresGap ==
    [][ ( /\ last'.op = "update"
          /\ bg.decorationWait - 1 <= 0
          /\ bg'.activeType = TileType_Surface
          /\ bg'.activeSlope = SlopeDirection_None )
        => bg'.decorations[tilePointer] = Decoration_Palmtree ]_vars

C8_Witness ==
    /\ last.op = "update"
    /\ Did(Background).decorationBranch = "placed"
    /\ bg.ref = Foreground
    /\ fg.activeType = TileType_None

\* C9: setReferenceLayer called after an update leaves the reference of
\* every layer as it was
C9_LateReferenceRejected ==
    [][ (last'.op = "setReferenceLayer" /\ ticks >= 1)
        => \A l \in Layers : layers'[l].ref = layers[l].ref ]_vars

\* C10: the background never bridges: its active type and its slots are
\* None or Surface, and it leaves Surface for None
C10_BackgroundNeverBridges ==
    /\ bg.activeType \in {TileType_None, TileType_Surface}
    /\ \A i \in Slots : bg.type[i] \in {TileType_None, TileType_Surface}
    /\ (last.op = "update" /\ Did(Background).typeBranch = "fromSurface")
          => bg.activeType = TileType_None

\* the background leaves Surface on a draw that bridges the foreground
C10_Witness ==
    /\ last.op = "update"
    /\ Did(Background).typeBranch = "fromSurface"
    /\ Did(Background).rt < BRIDGE_PROB[Foreground + 1]

\* the range of the foreground's heights
FgRange == MIN_HEIGHT[Foreground + 1] .. MAX_HEIGHT[Foreground + 1]

\* C11: a slope run the foreground starts at random stays in [1, 5]: the
\* height projected over the duration drawn lies in the range once the
\* direction is settled, the run lasts as many ticks as its duration, and on
\* every tick of the run the height moves by one unit and the tile written
\* lies in the range
C11_RandomSlopeRunInRange ==
    [][ last'.op = "update" =>
          /\ last'.did[Foreground].slopeBranch = "random" =>
                /\ fg'.activeSlope # SlopeDirection_None
                /\ fg'.slopeDuration \in SLOPE_DURATION_MIN .. SLOPE_DURATION_MAX
                /\ fg.activeHeight - fg'.activeSlope * fg'.slopeDuration \in FgRange
          /\ fg'.activeSlope # SlopeDirection_None =>
                /\ fg'.activeHeight = fg.activeHeight - fg'.activeSlope
                /\ fg'.height[tilePointer] = fg'.activeHeight
                /\ fg'.activeHeight \in FgRange
                /\ fg'.slopeDuration >= 1
                /\ \/ last'.did[Foreground].slopeBranch = "random"
                   \/ /\ fg'.slopeDuration = fg.slopeDuration - 1
                      /\ fg'.activeSlope = fg.activeSlope
          /\ (fg.activeSlope # SlopeDirection_None /\ fg.slopeDuration = 1)
                => fg'.activeSlope = SlopeDirection_None ]_vars

\* a run of two ticks whose direction was drawn ascending and flipped
C11_Witness ==
    /\ last.op = "update"
    /\ Did(Foreground).slopeBranch = "random"
    /\ Did(Foreground).rs < SLOPE_UP_PROB
    /\ fg.activeSlope = SlopeDirection_Down
    /\ fg.slopeDuration = 2

\* C12: a background layer with a reference, its own active type Surface,
\* that lies at most 1 above the reference (at most 2 while the reference
\* ascends) when its updateSlope starts takes the coupled branch: the slope
\* is ascending on this tick and flat on the next unless the rule fires
\* again, the slope wait is 2, the height is one higher, updateSlope leaves
\* the type hold one higher, and no random slope is started (no draw, no
\* duration)
C12_CoupledRule ==
    [][ /\ ( /\ last'.op = "update"
             /\ bg.ref = Foreground
             /\ bg.activeType = TileType_Surface
             /\ IF fg'.activeSlope = SlopeDirection_Up
                THEN CoupledDif <= 2 ELSE CoupledDif <= 1 )
           => /\ last'.did[Background].slopeBranch = "coupled"
              /\ last'.did[Background].rs = NoDraw
              /\ bg'.activeSlope = SlopeDirection_Up
              /\ bg'.slope[tilePointer] = SlopeDirection_Up
              /\ bg'.slopeDuration = 0
              /\ bg'.slopeWait = 2
              /\ bg'.activeHeight = bg.activeHeight + 1
              /\ \A s \in updateSlope(bg, fg', NoDraw) :
                    s.typeWait = bg.typeWait + 1
        /\ ( /\ last.op = "update"
             /\ Did(Background).slopeBranch = "coupled"
             /\ last'.op = "update"
             /\ last'.did[Background].slopeBranch # "coupled" )
           => bg'.activeSlope = SlopeDirection_None ]_vars

\* the rule fired over a reference that is flat and in a gap
C12_Witness ==
    /\ last.op = "update"
    /\ Did(Background).slopeBranch = "coupled"
    /\ fg.activeType = TileType_None
    /\ bg.activeHeight - 1 - fg.activeHeight = 1
    /\ bg.slopeWait = 2

\* C13: a foreground coupled to the background places a decoration only on
\* a tick on which the background's active type is not None, and with the
\* wait expired, its own type Surface, its own slope flat and the background
\* not in a gap it places one; the background is read as the foreground's
\* update finds it
C13_ForegroundDecoratesOffGap ==
    [][ (last'.op = "update" /\ fg.ref = Background) =>
          /\ last'.did[Foreground].decorationBranch = "placed"
                => bg.activeType # TileType_None
          /\ ( /\ fg.decorationWait - 1 <= 0
               /\ fg'.activeType = TileType_Surface
               /\ fg'.activeSlope = SlopeDirection_None
               /\ bg.activeType # TileType_None )
                => fg'.decorations[tilePointer] = Decoration_Palmtree ]_vars

\* C14: on a tick on which the decremented decoration wait is zero or less
\* the wait is drawn anew from [8, 16], whether a decoration was placed or
\* rejected
C14_WaitResetOnExpiry ==
    [][ last'.op = "update" =>
          \A l \in Layers :
             layers[l].decorationWait - 1 <= 0
                => layers'[l].decorationWait
                      \in DECORATION_WAIT_MIN .. DECORATION_WAIT_MAX ]_vars

\* C15: after every update a slot that holds a Palmtree holds type Surface
\* and a flat slope, and a tick on which the decremented decoration wait is
\* still positive writes Decoration None into its slot
C15_PalmtreeOnFlatSurface ==
    [][ last'.op = "update" =>
          \A l \in Layers :
             /\ \A i \in Slots :
                   layers'[l].decorations[i] = Decoration_Palmtree
                      => /\ layers'[l].type[i] = TileType_Surface
                         /\ layers'[l].slope[i] = SlopeDirection_None
             /\ layers[l].decorationWait - 1 > 0
                   => layers'[l].decorations[tilePointer] = Decoration_None ]_vars

\* a Palmtree stands in a slot of a layer whose other slots hold a slope
C15_Witness ==
    \E l \in Layers : \E i, j \in Slots :
       /\ layers[l].decorations[i] = Decoration_Palmtree
       /\ layers[l].slope[j] # SlopeDirection_None

\* the height of the tile the foreground wrote before the gap it is in or
\* has just left
FgGapFrom == trail[Foreground].gapFrom

\* C16: when the foreground's type goes from Surface to None the height is
\* drawn within 2 of the height of the tile before and within [1, 5]; the
\* height is kept through the gap; the first tile after the gap is Surface
\* and has the gap's height, so it is within 2 of the last tile before the
\* gap
C16_GapKeepsHeightNear ==
    [][ last'.op = "update" =>
          /\ (fg.activeType = TileType_Surface /\ fg'.activeType = TileType_None)
                => /\ fg'.activeHeight \in FgRange
                   /\ fg'.activeHeight - fg.activeHeight
                         \in (-GAP_JUMP_MAX) .. GAP_JUMP_MAX
                   /\ fg.activeHeight = fg.height[negMod(tilePointer - 1, Width)]
          /\ fg.activeType = TileType_None
                => /\ fg'.activeHeight = fg.activeHeight
                   /\ fg'.height[tilePointer] = fg.activeHeight
          /\ (fg.activeType = TileType_None /\ fg'.activeType # TileType_None)
                => /\ fg'.type[tilePointer] = TileType_Surface
                   /\ fg'.height[tilePointer] - FgGapFrom
                         \in (-GAP_JUMP_MAX) .. GAP_JUMP_MAX ]_vars

\* the first Surface tile after a gap lies 2 above the tile before the gap
C16_Witness ==
    /\ last.op = "update"
    /\ Did(Foreground).typeBranch = "toSurface"
    /\ fg.height[last.p] - FgGapFrom = GAP_JUMP_MAX

\* the floor segments objectCollision computes for the tile the foreground
\* s wrote last (ring column Width - 1 under the pointer tilePtr that
\* follows it) and for the tile written before it (ring column Width - 2)
LastSegment(s, tilePtr, tileOffset, screenHeight) ==
    tileSegments(s, Width - 1, truncDiv(screenHeight, 16), tilePtr, tileOffset)

SegmentBefore(s, tilePtr, tileOffset, screenHeight) ==
    tileSegments(s, Width - 2, truncDiv(screenHeight, 16), tilePtr, tileOffset)

\* C18: when two tiles the foreground wrote in consecutive updates are both
\* Surface or Bridge, the height of the later is the height of the earlier
\* less the slope of the later, and the floor segments of the two tiles
\* meet: the right end of the earlier is the left end of the later
C18_ConsecutiveTilesMeet ==
    [][ ( /\ last'.op = "update"
          /\ ticks >= 1
          /\ fg.activeType # TileType_None
          /\ fg'.activeType # TileType_None )
        => /\ fg'.height[tilePointer]
                 = fg'.height[negMod(tilePointer - 1, Width)] - fg'.slope[tilePointer]
           /\ \A off \in TileOffsets, sh \in ScreenHeights :
                 LET a == SegmentBefore(fg', tilePointer', off, sh)
                     b == LastSegment(fg', tilePointer', off, sh)
                 IN  /\ Len(a) = 1
                     /\ Len(b) = 1
                     /\ a[1][3] = b[1][1]
                     /\ a[1][4] = b[1][2] ]_vars

\* two descending tiles written one after the other, after a Surface tile
C18_Witness ==
    /\ last.op = "update"
    /\ ticks >= 2
    /\ fg.slope[last.p] = SlopeDirection_Down
    /\ fg.slope[negMod(last.p - 1, Width)] = SlopeDirection_Down
    /\ fg.height[last.p] = fg.height[negMod(last.p - 1, Width)] - 1
    /\ fg.type[negMod(last.p - 2, Width)] = TileType_Surface

\* the number of tiles of the foreground's gap or bridge written so far
FgRun == trail[Foreground].run

\* C19: a gap of the foreground is 2 to 4 tiles long and the tile after it
\* is Surface, and the tile after a bridge is Surface
C19_GapBoundedThenSurface ==
    [][ last'.op = "update" =>
          /\ fg'.activeType = TileType_None => trail'[Foreground].run <= 4
          /\ (fg.activeType = TileType_None /\ fg'.activeType # TileType_None)
                => /\ fg'.activeType = TileType_Surface
                   /\ FgRun \in 2 .. 4
          /\ (fg.activeType = TileType_Bridge /\ fg'.activeType # TileType_Bridge)
                => fg'.activeType = TileType_Surface ]_vars

\* the fourth tile of a gap that ends on the next tick
C19_Witness ==
    /\ fg.activeType = TileType_None
    /\ FgRun = 4
    /\ fg.typeWait = 1

\* the segment the claim gives for the tile column x of layer s, probed
\* under the pointer tilePtr with the scroll offset off on a screen of sh
\* pixels
ClaimedSegment(s, x, tilePtr, off, sh) ==
    LET slot == negMod(x + tilePtr, Width)
        dx == x * 16 - off - BASE_SHIFT_X * 16 + s.shift
        dy == (truncDiv(sh, 16) - s.height[slot]) * 16
        open(n) == IF s.type[n] = TileType_None THEN 1 ELSE 0
    IN  CASE s.slope[slot] = SlopeDirection_None ->
               <<dx, dy, dx + 16, dy,
                 open(negMod(slot - 1, Width)), open(negMod(slot + 1, Width))>>
          [] s.slope[slot] = SlopeDirection_Up -> <<dx, dy + 16, dx + 16, dy, 0, 0>>
          [] s.slope[slot] = SlopeDirection_Down -> <<dx, dy - 16, dx + 16, dy, 0, 0>>

\* the columns of the window around the actor's column px, left to right,
\* that are not empty
ClaimedColumns(s, px, tilePtr) ==
    SelectSeq([k \in 1 .. 2 * OFFSET + 1 |-> px - OFFSET - 1 + k],
              LAMBDA x : s.type[negMod(x + tilePtr, Width)] # TileType_None)

\* C17: objectCollision reports, for the columns px - 2 .. px + 2 in this
\* order, nothing for a column whose slot has type None and one segment for
\* every other column: the horizontal one at dy with the flags of the open
\* neighbours for a flat tile, the one from dy + 16 to dy for an ascending
\* tile, the one from dy - 16 to dy for a descending tile; at most 5 in all
C17_ProbeReportsSegments ==
    last.op = "objectCollision" =>
       LET s == layers[last.layer]
           px == truncDiv(last.args[1] - s.shift, 16) + BASE_SHIFT_X
           cols == ClaimedColumns(s, px, last.p)
       IN  /\ Len(last.segs) <= 5
           /\ Len(last.segs) = Len(cols)
           /\ \A k \in 1 .. Len(cols) :
                 last.segs[k] = ClaimedSegment(s, cols[k], last.p,
                                               last.args[2], last.args[3])

\* a probe that skipped a column and reported a flat tile whose left
\* neighbour is open and whose right neighbour is not, and a slope
C17_Witness ==
    /\ last.op = "objectCollision"
    /\ Len(last.segs) \in 1 .. 4
    /\ \E k \in 1 .. Len(last.segs) :
          last.segs[k][5] = 1 /\ last.segs[k][6] = 0
    /\ \E k \in 1 .. Len(last.segs) : last.segs[k][2] # last.segs[k][4]

\* every Image made so far has fired
AllFired == \A k \in 1 .. Len(images) : images[k].fired

\* C20: in every interleaving of loadBitmap calls and onload callbacks,
\* loaded is at most totalAssets, hasLoaded() holds exactly when the onload
\* of every request made so far has fired, and when it holds getBitmap is
\* defined for every name requested
C20_LoadedCountsRequests ==
    /\ assets.loaded <= assets.totalAssets
    /\ hasLoaded(assets) <=> AllFired
    /\ hasLoaded(assets) =>
          \A k \in 1 .. Len(images) :
             getBitmap(assets, images[k].name) # Undefined

\* everything asked for has loaded, a name asked for twice keeps the Image
\* that fired last, which was made first
C20_Witness ==
    /\ Len(images) = MaxRequests
    /\ hasLoaded(assets)
    /\ \E j, k \in 1 .. Len(images) :
          /\ j < k
          /\ images[j].name = images[k].name
          /\ getBitmap(assets, images[j].name) = j

====
